---- MODULE Spec2Model ----
(***************************************************************************)
(* A model of resources/generate/main.ts: the script that loads ports.yml, *)
(* categories.yml and the remote userstyles.yml, validates them, merges    *)
(* ports and userstyles, groups them by primary category, renders two      *)
(* markdown fragments and splices them into README.md.                     *)
(*                                                                         *)
(* Conventions.  A JavaScript object is a function with a domain of        *)
(* strings, so that a key is absent when it is not in the DOMAIN.  An      *)
(* object used as an ordered mapping (ports, userstyles) is the sequence   *)
(* of its [slug, port] entries in Object.entries order.  A value that may  *)
(* be undefined or null is None or Some(v).                                *)
(***************************************************************************)
EXTENDS Integers, Sequences, FiniteSets, TLC

VARIABLES
    pc,              \* the statement of the module's top level that runs next
    readmeFile,      \* README.md as it is on disk
    portsYaml,       \* const portsYaml       (line 19)
    categoriesYaml,  \* const categoriesYaml  (line 20)
    userstylesYaml,  \* const userstylesYaml  (line 21)
    portsData,       \* const portsData       (line 25)
    categoriesData,  \* const categoriesData  (line 30)
    userstylesData,  \* const userstylesData  (line 34)
    ports,           \* const ports           (line 51)
    portSlugs,       \* const portSlugs       (line 70)
    acc,             \* the accumulator of the reduce of line 72
    idx,             \* how many entries of ports the reduce has processed
    categorized,     \* const categorized     (line 72)
    portListData,    \* const portListData    (line 122)
    readmeContent,   \* let readmeContent     (line 130)
    portContent,     \* const portContent     (line 132)
    showcaseContent, \* const showcaseContent (line 144)
    logged,          \* what console.log has printed (line 160)
    writes,          \* the contents handed to Deno.writeTextFile (line 162)
    error            \* the uncaught error that ended the run, if any

vars == <<pc, readmeFile, portsYaml, categoriesYaml, userstylesYaml, portsData,
          categoriesData, userstylesData, ports, portSlugs, acc, idx,
          categorized, portListData, readmeContent, portContent,
          showcaseContent, logged, writes, error>>

----------------------------------------------------------------------------
(* Values *)

None == <<>>
Some(v) == <<v>>

\* o.k of JavaScript: undefined when the key is absent.
Has(o, k) == k \in DOMAIN o

\* { ...o, [k]: v }
With(o, k, v) == (k :> v) @@ o

\* An error object: where it was thrown and its message.
Err(at, message) == [at |-> at, message |-> message]

----------------------------------------------------------------------------
(* Bounds of the input families *)

\* The largest number of entries of a supports mapping.
MaxSupports == 2

\* S together with every member of S extended by key f with a value of V.
Opt(S, f, V) == S \cup { With(r, f, v) : r \in S, v \in V }

\* The sequences over S of lengths 1..n.
SeqsUpTo(S, n) == UNION { [1..k -> S] : k \in 1..n }

\* The ordered mappings whose slugs are one of slugSeqs and whose values
\* are members of Entries.
Mappings(slugSeqs, Entries) ==
    UNION { { [i \in 1..Len(ss) |-> [slug |-> ss[i], port |-> f[i]]] :
              f \in [1..Len(ss) -> Entries] } : ss \in slugSeqs }

----------------------------------------------------------------------------
(* The pure parts of the script *)

\* Object.entries(m).reduce((acc, [slug, port]) => { acc[slug] = {...port,
\* type}; return acc }, {}): the same slugs in the same order, each value
\* tagged.  (Slugs are not integer-like, so insertion order is kept.)
Tagged(m, type) ==
    [i \in 1..Len(m) |-> [slug |-> m[i].slug, port |-> With(m[i].port, "type", type)]]

\* The position of slug in the ordered mapping m, 0 when it is no key of m.
IndexOf(m, slug) ==
    IF \E i \in 1..Len(m) : m[i].slug = slug
        THEN CHOOSE i \in 1..Len(m) : m[i].slug = slug
        ELSE 0

\* m[slug] = v on an ordered mapping: an existing key keeps its place and
\* takes the new value, a new key goes last.
SetKey(m, slug, v) ==
    IF IndexOf(m, slug) # 0
        THEN [m EXCEPT ![IndexOf(m, slug)] = [slug |-> slug, port |-> v]]
        ELSE Append(m, [slug |-> slug, port |-> v])

\* { ...a, ...b }
RECURSIVE Spread(_, _)
Spread(a, b) ==
    IF b = <<>> THEN a
    ELSE Spread(SetKey(a, Head(b).slug, Head(b).port), Tail(b))

\* MergePorts with the two spreads in the other order: on a slug of both,
\* the port would win.
MergePortsPortWins(portsMap, userstylesMap) ==
    Spread(Tagged(userstylesMap, "userstyle"), Tagged(portsMap, "port"))

\* Lines 51-68: the ports, labelled with their type, then the userstyles.
MergePorts(portsMap, userstylesMap) ==
    Spread(Tagged(portsMap, "port"), Tagged(userstylesMap, "userstyle"))

\* Line 70.
SlugsOf(m) == [i \in 1..Len(m) |-> m[i].slug]

\* AliasDangles as it would be were the alias validated only where the
\* url is derived from it.
AliasDanglesUnlessUrl(port, slugs) ==
    /\ ~Has(port, "url")
    /\ Has(port, "alias")
    /\ port.alias # ""
    /\ \A i \in 1..Len(slugs) : slugs[i] # port.alias

\* Line 79: port.alias && !portSlugs.includes(port.alias)
AliasDangles(port, slugs) ==
    /\ Has(port, "alias")
    /\ port.alias # ""
    /\ \A i \in 1..Len(slugs) : slugs[i] # port.alias

\* Line 81.
AliasMessage(slug, alias) ==
    "port `" \o slug \o "` points to an alias `" \o alias \o "` that doesn't exist"

\* ResolveUrl with the repository always named by the slug.
ResolveUrlIgnoresAlias(slug, port) ==
    IF Has(port, "url") /\ port.url # ""
        THEN port.url
        ELSE IF port.type = "port"
            THEN "https://github.com/catppuccin/" \o slug
            ELSE "https://github.com/catppuccin/userstyles/tree/main/styles/" \o slug

\* Lines 85-99.
ResolveUrl(slug, port) ==
    IF Has(port, "url") /\ port.url # ""
        THEN port.url
        ELSE IF port.type = "port"
            THEN "https://github.com/catppuccin/"
                    \o (IF Has(port, "alias") THEN port.alias ELSE slug)
            ELSE "https://github.com/catppuccin/userstyles/tree/main/styles/" \o slug

\* Object.values(port.supports ?? {}): the supports mapping is kept as the
\* sequence of its values.
SupportsOf(port) == IF Has(port, "supports") THEN port.supports ELSE <<>>

\* RowsOf with the entry's own row left out when it has variants.
RowsOfVariantsOnly(port, url) ==
    IF SupportsOf(port) = <<>>
        THEN <<With(port, "url", url)>>
        ELSE [i \in 1..Len(SupportsOf(port)) |->
                With(With(port, "url", url), "name", SupportsOf(port)[i].name)]

\* Lines 101-113: the rows pushed for one entry.
RowsOf(port, url) ==
    <<With(port, "url", url)>>
        \o [i \in 1..Len(SupportsOf(port)) |->
                With(With(port, "url", url), "name", SupportsOf(port)[i].name)]

\* The collation order of the names of the model, as String.prototype.
\* localeCompare orders them: lower case before upper case of a letter.
CollationRank(name) ==
    CASE name = "Alpha" -> 1
      [] name = "beta"  -> 2
      [] name = "Beta"  -> 3
      [] name = "Gamma" -> 4
      [] name = "Zeta"  -> 5

\* a.name.localeCompare(b.name): negative, zero or positive.
LocaleCompare(a, b) == CollationRank(a) - CollationRank(b)

\* r put into the sorted rows after every row that does not compare
\* greater than it.
RECURSIVE InsertRow(_, _)
InsertRow(rows, r) ==
    IF rows = <<>> THEN <<r>>
    ELSE IF LocaleCompare(Head(rows).name, r.name) <= 0
        THEN <<Head(rows)>> \o InsertRow(Tail(rows), r)
        ELSE <<r>> \o rows

\* SortRows left out: the rows stay in the order they were pushed.
SortRowsOmitted(rows) == rows

\* Line 115: Array.prototype.sort with the comparator; the sort is stable.
RECURSIVE SortRows(_)
SortRows(rows) ==
    IF rows = <<>> THEN <<>>
    ELSE InsertRow(SortRows(SubSeq(rows, 1, Len(rows) - 1)), rows[Len(rows)])

\* Lines 76 and 101-115 on the accumulator: create the bucket, push, sort.
PushSorted(a, key, rows) ==
    With(a, key, SortRows((IF Has(a, key) THEN a[key] ELSE <<>>) \o rows))

\* Lines 122-127.
PortListData(categories, cat) ==
    [i \in 1..Len(categories) |->
        [meta |-> categories[i],
         ports |-> IF Has(cat, categories[i].key) THEN cat[categories[i].key] ELSE <<>>]]

\* Array.prototype.join
RECURSIVE Join(_, _)
Join(strs, sep) ==
    IF strs = <<>> THEN ""
    ELSE IF Len(strs) = 1 THEN strs[1]
    ELSE strs[1] \o sep \o Join(Tail(strs), sep)

\* Line 133: filter((data) => data.ports.length !== 0)
RECURSIVE NonEmptyData(_)
NonEmptyData(data) ==
    IF data = <<>> THEN <<>>
    ELSE IF Len(Head(data).ports) # 0
        THEN <<Head(data)>> \o NonEmptyData(Tail(data))
        ELSE NonEmptyData(Tail(data))

\* Lines 132-142.
RenderPortList(data) ==
    LET nonEmpty == NonEmptyData(data)
        block(d) ==
            "<details open>\n<summary>" \o d.meta.emoji \o " " \o d.meta.name
                \o "</summary>\n\n"
                \o Join([j \in 1..Len(d.ports) |->
                            "- [" \o d.ports[j].name \o "](" \o d.ports[j].url \o ")"], "\n")
                \o "\n\n</details>"
    IN  Join([i \in 1..Len(nonEmpty) |-> block(nonEmpty[i])], "\n")

\* Lines 144-148: undefined when the document has no showcases.
RenderShowcases(data) ==
    IF Has(data, "showcases")
        THEN Some(Join([i \in 1..Len(data.showcases) |->
                "- [" \o data.showcases[i].title \o "](" \o data.showcases[i].link
                    \o ") - " \o data.showcases[i].description], "\n"))
        ELSE None

\* The README text is kept as the mapping from the sections whose markers
\* it holds to the text between them.  updateReadme of catppuccin-deno-lib
\* replaces the text between the markers of a section and throws when the
\* markers are missing.
CanUpdateReadme(doc, section) == Has(doc, section)

UpdateReadme(doc, content, section) == With(doc, section, content)

----------------------------------------------------------------------------
(* The run: one action per statement of the module's top level *)

\* Throw as it would be were the statement inside the try block: the error
\* is kept and the finally block runs.
ThrowIntoFinally(at, message) ==
    /\ pc' = "write"
    /\ error' = Some(Err(at, message))

\* An uncaught error: the process ends and no later statement runs.
Throw(at, message) ==
    /\ pc' = "aborted"
    /\ error' = Some(Err(at, message))

InitWith(readmeFiles) ==
    /\ pc = "readPorts"
    /\ readmeFile \in readmeFiles
    /\ portsYaml = None /\ categoriesYaml = None /\ userstylesYaml = None
    /\ portsData = <<>> /\ categoriesData = None /\ userstylesData = <<>>
    /\ ports = <<>> /\ portSlugs = <<>> /\ acc = <<>> /\ idx = 0
    /\ categorized = <<>> /\ portListData = <<>>
    /\ readmeContent = <<>> /\ portContent = "" /\ showcaseContent = None
    /\ logged = <<>> /\ writes = <<>> /\ error = None

\* Line 19: the text of ports.yml, or an error when it cannot be read.
ReadPorts(docs) ==
    /\ pc = "readPorts"
    /\ \/ \E d \in docs : portsYaml' = d /\ pc' = "readCategories" /\ error' = error
       \/ Throw("readPorts", "NotFound") /\ portsYaml' = portsYaml
    /\ UNCHANGED <<readmeFile, categoriesYaml, userstylesYaml, portsData,
                   categoriesData, userstylesData, ports, portSlugs, acc, idx,
                   categorized, portListData, readmeContent, portContent,
                   showcaseContent, logged, writes>>

\* Line 20.
ReadCategories(docs) ==
    /\ pc = "readCategories"
    /\ \/ \E d \in docs : categoriesYaml' = d /\ pc' = "fetchUserstyles" /\ error' = error
       \/ Throw("readCategories", "NotFound") /\ categoriesYaml' = categoriesYaml
    /\ UNCHANGED <<readmeFile, portsYaml, userstylesYaml, portsData,
                   categoriesData, userstylesData, ports, portSlugs, acc, idx,
                   categorized, portListData, readmeContent, portContent,
                   showcaseContent, logged, writes>>

\* Lines 21-23: the body of the response, or an error when the request fails.
FetchUserstyles(docs) ==
    /\ pc = "fetchUserstyles"
    /\ \/ \E d \in docs : userstylesYaml' = d /\ pc' = "validatePorts" /\ error' = error
       \/ Throw("fetchUserstyles", "fetch failed") /\ userstylesYaml' = userstylesYaml
    /\ UNCHANGED <<readmeFile, portsYaml, categoriesYaml, portsData,
                   categoriesData, userstylesData, ports, portSlugs, acc, idx,
                   categorized, portListData, readmeContent, portContent,
                   showcaseContent, logged, writes>>

\* Lines 25-29: validateYaml returns the document or throws.
ValidatePorts ==
    /\ pc = "validatePorts"
    /\ \/ /\ portsYaml.valid
          /\ portsData' = portsYaml.data /\ pc' = "validateCategories" /\ error' = error
       \/ /\ ~portsYaml.valid
          /\ Throw("validatePorts", "schema") /\ portsData' = portsData
    /\ UNCHANGED <<readmeFile, portsYaml, categoriesYaml, userstylesYaml,
                   categoriesData, userstylesData, ports, portSlugs, acc, idx,
                   categorized, portListData, readmeContent, portContent,
                   showcaseContent, logged, writes>>

\* Lines 30-33.
ValidateCategories ==
    /\ pc = "validateCategories"
    /\ \/ /\ categoriesYaml.valid
          /\ categoriesData' = categoriesYaml.data /\ pc' = "validateUserstyles"
          /\ error' = error
       \/ /\ ~categoriesYaml.valid
          /\ Throw("validateCategories", "schema") /\ categoriesData' = categoriesData
    /\ UNCHANGED <<readmeFile, portsYaml, categoriesYaml, userstylesYaml,
                   portsData, userstylesData, ports, portSlugs, acc, idx,
                   categorized, portListData, readmeContent, portContent,
                   showcaseContent, logged, writes>>

\* Lines 34-38.
ValidateUserstyles ==
    /\ pc = "validateUserstyles"
    /\ \/ /\ userstylesYaml.valid
          /\ userstylesData' = userstylesYaml.data /\ pc' = "checkEmpty" /\ error' = error
       \/ /\ ~userstylesYaml.valid
          /\ Throw("validateUserstyles", "schema") /\ userstylesData' = userstylesData
    /\ UNCHANGED <<readmeFile, portsYaml, categoriesYaml, userstylesYaml,
                   portsData, categoriesData, ports, portSlugs, acc, idx,
                   categorized, portListData, readmeContent, portContent,
                   showcaseContent, logged, writes>>

\* IsEmpty testing the ports alone.
IsEmptyPortsOnly(pd, cd, ud) == ~Has(pd, "ports")

\* Line 40: !portsData.ports || !categoriesData || !userstylesData.userstyles.
\* An object or an array is truthy, also when it has no entries.
IsEmpty(pd, cd, ud) ==
    \/ ~Has(pd, "ports")
    \/ cd = None
    \/ ~Has(ud, "userstyles")

\* Lines 40-42.
CheckEmpty ==
    /\ pc = "checkEmpty"
    /\ \/ /\ IsEmpty(portsData, categoriesData, userstylesData)
          /\ Throw("checkEmpty", "ports.yml is empty")
       \/ /\ ~IsEmpty(portsData, categoriesData, userstylesData)
          /\ pc' = "ports" /\ error' = error
    /\ UNCHANGED <<readmeFile, portsYaml, categoriesYaml, userstylesYaml,
                   portsData, categoriesData, userstylesData, ports, portSlugs,
                   acc, idx, categorized, portListData, readmeContent,
                   portContent, showcaseContent, logged, writes>>

\* Lines 51-70: const ports and const portSlugs.
Merge ==
    /\ pc = "ports"
    /\ ports' = MergePorts(portsData.ports, userstylesData.userstyles)
    /\ portSlugs' = SlugsOf(ports')
    /\ pc' = "categorized"
    /\ UNCHANGED <<readmeFile, portsYaml, categoriesYaml, userstylesYaml,
                   portsData, categoriesData, userstylesData, acc, idx,
                   categorized, portListData, readmeContent, portContent,
                   showcaseContent, logged, writes, error>>

\* Lines 74-118: the callback of the reduce on the next entry of ports.
\* The alias is validated after the bucket is created and before anything
\* is pushed.
GroupEntry ==
    /\ pc = "categorized"
    /\ idx < Len(ports)
    /\ LET slug == ports[idx + 1].slug
           port == ports[idx + 1].port
           key  == port.categories[1]
       IN  \/ /\ AliasDangles(port, portSlugs)
              /\ acc' = IF Has(acc, key) THEN acc ELSE With(acc, key, <<>>)
              /\ idx' = idx
              /\ Throw("categorized", AliasMessage(slug, port.alias))
           \/ /\ ~AliasDangles(port, portSlugs)
              /\ acc' = PushSorted(acc, key, RowsOf(port, ResolveUrl(slug, port)))
              /\ idx' = idx + 1
              /\ pc' = pc /\ error' = error
    /\ UNCHANGED <<readmeFile, portsYaml, categoriesYaml, userstylesYaml,
                   portsData, categoriesData, userstylesData, ports, portSlugs,
                   categorized, portListData, readmeContent, portContent,
                   showcaseContent, logged, writes>>

\* Line 72: the reduce returns its accumulator.
GroupDone ==
    /\ pc = "categorized"
    /\ idx = Len(ports)
    /\ categorized' = acc
    /\ pc' = "portListData"
    /\ UNCHANGED <<readmeFile, portsYaml, categoriesYaml, userstylesYaml,
                   portsData, categoriesData, userstylesData, ports, portSlugs,
                   acc, idx, portListData, readmeContent, portContent,
                   showcaseContent, logged, writes, error>>

\* Lines 122-127.
BuildPortListData ==
    /\ pc = "portListData"
    /\ portListData' = PortListData(categoriesData[1], categorized)
    /\ pc' = "readReadme"
    /\ UNCHANGED <<readmeFile, portsYaml, categoriesYaml, userstylesYaml,
                   portsData, categoriesData, userstylesData, ports, portSlugs,
                   acc, idx, categorized, readmeContent, portContent,
                   showcaseContent, logged, writes, error>>

\* Lines 129-130: outside the try block, so a failure to read is uncaught.
ReadReadme ==
    /\ pc = "readReadme"
    /\ \/ /\ readmeFile # None
          /\ readmeContent' = readmeFile[1] /\ pc' = "portContent" /\ error' = error
       \/ /\ readmeFile = None
          /\ Throw("readReadme", "NotFound") /\ readmeContent' = readmeContent
    /\ UNCHANGED <<readmeFile, portsYaml, categoriesYaml, userstylesYaml,
                   portsData, categoriesData, userstylesData, ports, portSlugs,
                   acc, idx, categorized, portListData, portContent,
                   showcaseContent, logged, writes>>

\* Lines 132-142.
RenderPortContent ==
    /\ pc = "portContent"
    /\ portContent' = RenderPortList(portListData)
    /\ pc' = "showcaseContent"
    /\ UNCHANGED <<readmeFile, portsYaml, categoriesYaml, userstylesYaml,
                   portsData, categoriesData, userstylesData, ports, portSlugs,
                   acc, idx, categorized, portListData, readmeContent,
                   showcaseContent, logged, writes, error>>

\* Lines 144-148.
RenderShowcaseContent ==
    /\ pc = "showcaseContent"
    /\ showcaseContent' = RenderShowcases(portsData)
    /\ pc' = "updatePortlist"
    /\ UNCHANGED <<readmeFile, portsYaml, categoriesYaml, userstylesYaml,
                   portsData, categoriesData, userstylesData, ports, portSlugs,
                   acc, idx, categorized, portListData, readmeContent,
                   portContent, logged, writes, error>>

\* UpdatePortlist without the catch: a throw of the splice ends the run.
UpdatePortlistUncaught ==
    /\ pc = "updatePortlist"
    /\ \/ /\ CanUpdateReadme(readmeContent, "portlist")
          /\ readmeContent' = UpdateReadme(readmeContent, portContent, "portlist")
          /\ pc' = "updateShowcase" /\ error' = error
       \/ /\ ~CanUpdateReadme(readmeContent, "portlist")
          /\ readmeContent' = readmeContent
          /\ Throw("updateReadme", "portlist")
    /\ UNCHANGED <<readmeFile, portsYaml, categoriesYaml, userstylesYaml,
                   portsData, categoriesData, userstylesData, ports, portSlugs,
                   acc, idx, categorized, portListData, portContent,
                   showcaseContent, logged, writes>>

\* Lines 150-153 and 159-160: the first statement of the try block.  A
\* throw leaves readmeContent as it was, is logged by the catch, and the
\* finally block runs next.
UpdatePortlist ==
    /\ pc = "updatePortlist"
    /\ \/ /\ CanUpdateReadme(readmeContent, "portlist")
          /\ readmeContent' = UpdateReadme(readmeContent, portContent, "portlist")
          /\ logged' = logged
          /\ pc' = "updateShowcase"
       \/ /\ ~CanUpdateReadme(readmeContent, "portlist")
          /\ readmeContent' = readmeContent
          /\ logged' = Append(logged, Err("updateReadme", "portlist"))
          /\ pc' = "write"
    /\ UNCHANGED <<readmeFile, portsYaml, categoriesYaml, userstylesYaml,
                   portsData, categoriesData, userstylesData, ports, portSlugs,
                   acc, idx, categorized, portListData, portContent,
                   showcaseContent, writes, error>>

\* Line 154: showcaseContent && (...): undefined and "" skip the splice.
Truthy(s) == s # None /\ s[1] # ""

\* UpdateShowcase with the document rolled back to the README as read when
\* the showcase splice throws.
UpdateShowcaseRollsBack ==
    /\ pc = "updateShowcase"
    /\ \/ /\ Truthy(showcaseContent)
          /\ CanUpdateReadme(readmeContent, "showcase")
          /\ readmeContent' = UpdateReadme(readmeContent, showcaseContent[1], "showcase")
          /\ logged' = logged
       \/ /\ Truthy(showcaseContent)
          /\ ~CanUpdateReadme(readmeContent, "showcase")
          /\ readmeContent' = readmeFile[1]
          /\ logged' = Append(logged, Err("updateReadme", "showcase"))
       \/ /\ ~Truthy(showcaseContent)
          /\ readmeContent' = readmeContent
          /\ logged' = logged
    /\ pc' = "write"
    /\ UNCHANGED <<readmeFile, portsYaml, categoriesYaml, userstylesYaml,
                   portsData, categoriesData, userstylesData, ports, portSlugs,
                   acc, idx, categorized, portListData, portContent,
                   showcaseContent, writes, error>>

\* Lines 154-160: the second statement of the try block.
UpdateShowcase ==
    /\ pc = "updateShowcase"
    /\ \/ /\ Truthy(showcaseContent)
          /\ CanUpdateReadme(readmeContent, "showcase")
          /\ readmeContent' = UpdateReadme(readmeContent, showcaseContent[1], "showcase")
          /\ logged' = logged
       \/ /\ Truthy(showcaseContent)
          /\ ~CanUpdateReadme(readmeContent, "showcase")
          /\ readmeContent' = readmeContent
          /\ logged' = Append(logged, Err("updateReadme", "showcase"))
       \/ /\ ~Truthy(showcaseContent)
          /\ readmeContent' = readmeContent
          /\ logged' = logged
    /\ pc' = "write"
    /\ UNCHANGED <<readmeFile, portsYaml, categoriesYaml, userstylesYaml,
                   portsData, categoriesData, userstylesData, ports, portSlugs,
                   acc, idx, categorized, portListData, portContent,
                   showcaseContent, writes, error>>

\* Lines 161-163: the finally block.  The write itself may fail, and then
\* its error is uncaught.
WriteReadme ==
    /\ pc = "write"
    /\ writes' = Append(writes, readmeContent)
    /\ \/ readmeFile' = Some(readmeContent) /\ pc' = "done" /\ error' = error
       \/ readmeFile' = readmeFile /\ Throw("write", "PermissionDenied")
    /\ UNCHANGED <<portsYaml, categoriesYaml, userstylesYaml, portsData,
                   categoriesData, userstylesData, ports, portSlugs, acc, idx,
                   categorized, portListData, readmeContent, portContent,
                   showcaseContent, logged>>

----------------------------------------------------------------------------
(* The input families *)

Yaml(data) == [valid |-> TRUE, data |-> data]

\* A text that its schema rejects.
InvalidYaml == [valid |-> FALSE]

catA == [key |-> "a", name |-> "Apps", emoji |-> ":a:"]
catB == [key |-> "b", name |-> "Browsers", emoji |-> ":b:"]

CategoriesYamls ==
    {InvalidYaml, Yaml(None), Yaml(Some(<<>>)), Yaml(Some(<<catA>>)),
     Yaml(Some(<<catB, catA>>))}

showcase1 == [title |-> "Site", link |-> "https://s", description |-> "A site"]

\* README.md: missing, or with the markers of any of the two sections.
ReadmeFiles ==
    {None} \cup
    { Some([sec \in secs |-> "old"]) : secs \in SUBSET {"portlist", "showcase"} }

\* The run as a whole: few entries, every way a document can be missing,
\* empty or rejected.
RunPortEntries ==
    Opt(Opt([name : {"Zeta"}, categories : {<<"a">>}], "alias", {"p2", "missing"}),
        "url", {"https://x"})

RunPortsYamls ==
    {InvalidYaml} \cup
    { Yaml(d) :
        d \in Opt(Opt({<<>>}, "ports",
                      Mappings({<<>>, <<"p1">>, <<"p1", "p2">>}, RunPortEntries)),
                  "showcases", {<<>>, <<showcase1>>}) }

RunUserstyleEntries == [name : {"Beta"}, categories : {<<"a">>, <<"b">>}]

RunUserstylesYamls ==
    {InvalidYaml} \cup
    { Yaml(d) :
        d \in Opt({<<>>}, "userstyles",
                  Mappings({<<>>, <<"u1">>, <<"p1">>}, RunUserstyleEntries)) }

Init == InitWith(ReadmeFiles)

Next ==
    \/ ReadPorts(RunPortsYamls)
    \/ ReadCategories(CategoriesYamls)
    \/ FetchUserstyles(RunUserstylesYamls)
    \/ ValidatePorts
    \/ ValidateCategories
    \/ ValidateUserstyles
    \/ CheckEmpty
    \/ Merge
    \/ GroupEntry
    \/ GroupDone
    \/ BuildPortListData
    \/ ReadReadme
    \/ RenderPortContent
    \/ RenderShowcaseContent
    \/ UpdatePortlist
    \/ UpdateShowcase
    \/ WriteReadme

Spec == Init /\ [][Next]_vars

\* Merging and grouping alone, on validated documents with every optional
\* field of an entry.
SupportsValues == SeqsUpTo([name : {"Alpha", "beta"}], MaxSupports)

GroupPortEntries ==
    Opt([name : {"Beta", "Zeta"}, categories : {<<"a">>, <<"b", "a">>}],
        "supports", SupportsValues)
    \cup
    Opt(Opt(Opt([name : {"Beta"}, categories : {<<"a">>}], "url", {"https://x"}),
            "alias", {"p2", "missing"}),
        "supports", {<<[name |-> "Alpha"]>>})
    \cup
    Opt(Opt([name : {"Beta"}, categories : {<<"a">>}], "readme", {"r"}),
        "platform", {"linux"})

GroupPortsData ==
    { [ports |-> m] :
        m \in Mappings({<<>>, <<"p1">>, <<"p1", "p2">>}, GroupPortEntries) }

GroupUserstyleEntries ==
    Opt(Opt(Opt([name : {"Gamma"}, categories : {<<"a">>, <<"b">>}],
                "supports", {<<[name |-> "Alpha"]>>}),
            "url", {"https://u"}),
        "readme", {"r"})

GroupUserstylesData ==
    { [userstyles |-> m] :
        m \in Mappings({<<>>, <<"u1">>, <<"p1">>}, GroupUserstyleEntries) }

InitGroup ==
    /\ pc = "ports"
    /\ readmeFile = Some([sec \in {"portlist", "showcase"} |-> "old"])
    /\ portsData \in GroupPortsData
    /\ userstylesData \in GroupUserstylesData
    /\ categoriesData = Some(<<catA, catB>>)
    /\ portsYaml = Yaml(portsData)
    /\ categoriesYaml = Yaml(categoriesData)
    /\ userstylesYaml = Yaml(userstylesData)
    /\ ports = <<>> /\ portSlugs = <<>> /\ acc = <<>> /\ idx = 0
    /\ categorized = <<>> /\ portListData = <<>>
    /\ readmeContent = <<>> /\ portContent = "" /\ showcaseContent = None
    /\ logged = <<>> /\ writes = <<>> /\ error = None

NextGroup ==
    \/ Merge
    \/ GroupEntry
    \/ GroupDone

SpecGroup == InitGroup /\ [][NextGroup]_vars

----------------------------------------------------------------------------
(* Vocabulary of the properties *)

LoadSteps == {"readPorts", "readCategories", "fetchUserstyles"}
ValidateSteps == {"validatePorts", "validateCategories", "validateUserstyles"}

\* The steps before the splice stage that the contract names as fatal.
PreSpliceSteps == LoadSteps \cup ValidateSteps \cup {"checkEmpty", "categorized"}

Ended == pc \in {"done", "aborted"}

FailedAt(steps) == error # None /\ error[1].at \in steps

\* The three documents have been read and validated.
Validated == pc \notin LoadSteps \cup ValidateSteps /\ ~FailedAt(LoadSteps \cup ValidateSteps)

\* ... and the absent-collection check has passed.
Checked == Validated /\ pc # "checkEmpty" /\ ~FailedAt({"checkEmpty"})

\* ... and grouping has finished without an alias error.
Grouped == Checked /\ pc \notin {"ports", "categorized"} /\ ~FailedAt({"categorized"})

Range(s) == { s[i] : i \in 1..Len(s) }

Count(s, r) == Cardinality({ i \in 1..Len(s) : s[i] = r })

\* The two sequences hold the same rows the same number of times.
SameRows(a, b) ==
    /\ Len(a) = Len(b)
    /\ \A r \in Range(a) \cup Range(b) : Count(a, r) = Count(b, r)

Bucket(a, key) == IF Has(a, key) THEN a[key] ELSE <<>>

Primary(port) == port.categories[1]

----------------------------------------------------------------------------
(* C1 *)

\* C1: whenever a step before the splice stage has failed (a read, the
\* fetch, a validation, the absent-collection check or the alias check of
\* the grouping), the run has aborted with that uncaught error and nothing
\* has been handed to Deno.writeTextFile, nor is the README on disk touched
\* by the catch or the finally block.
C1_FatalBeforeSpliceNeverWrites ==
    FailedAt(PreSpliceSteps) =>
        /\ pc = "aborted"
        /\ writes = <<>>
        /\ logged = <<>>

\* A run that the alias check has aborted, with nothing written.
C1_Witness ==
    /\ pc = "aborted"
    /\ FailedAt({"categorized"})
    /\ writes = <<>>

----------------------------------------------------------------------------
(* C2 *)

\* C2 as stated: once loading, validation, the absent-collection check and
\* the alias check have succeeded, a run that has ended has written the
\* README exactly once, whatever happened afterwards.
C2_Original ==
    (Ended /\ Grouped) => Len(writes) = 1

\* C2, amended: once loading, validation, the absent-collection check, the
\* alias check and the read of the current README have succeeded, a run
\* that has ended has called the write exactly once, whatever the splices
\* did; no run writes twice; and a write happens only after both fragments
\* have been generated, with the document the splices left.
C2_WritesOnceAfterReadmeRead ==
    /\ Len(writes) <= 1
    /\ (Ended /\ Grouped /\ ~FailedAt({"readReadme"})) => Len(writes) = 1
    /\ writes # <<>> =>
        /\ Ended
        /\ Grouped
        /\ portContent = RenderPortList(portListData)
        /\ showcaseContent = RenderShowcases(portsData)
        /\ writes[1] = readmeContent

\* A run that has written although a splice threw.
C2_Witness ==
    /\ pc = "done"
    /\ Len(writes) = 1
    /\ logged # <<>>
    /\ portContent # ""

----------------------------------------------------------------------------
(* C3 *)

PortlistThrew == Err("updateReadme", "portlist") \in Range(logged)
ShowcaseThrew == Err("updateReadme", "showcase") \in Range(logged)

\* C3: when a splice throws, the error is logged and not rethrown (the run
\* goes on to the write, and ends in failure only if the write itself
\* fails); if the port-list splice throws, the showcase splice is not
\* attempted and the document to write is the README as it was read; if
\* only the showcase splice throws, the document to write is the result of
\* the port-list splice; and the document written is that document.
C3_SpliceErrorCaughtPartialWritten ==
    /\ logged # <<>> =>
        /\ pc \in {"write", "done", "aborted"}
        /\ Len(logged) = 1
        /\ pc = "aborted" => FailedAt({"write"})
        /\ Ended => Len(writes) = 1
    /\ (pc = "write" /\ PortlistThrew) =>
        /\ ~ShowcaseThrew
        /\ readmeContent = readmeFile[1]
    /\ (pc = "write" /\ ShowcaseThrew) =>
        readmeContent = UpdateReadme(readmeFile[1], portContent, "portlist")
    /\ writes # <<>> => writes[1] = readmeContent
    /\ (pc = "done" /\ logged # <<>>) => readmeFile = Some(readmeContent)

\* The showcase splice alone threw, and the README on disk has the new
\* port list.
C3_Witness ==
    /\ pc = "done"
    /\ logged = <<Err("updateReadme", "showcase")>>
    /\ Has(readmeFile[1], "portlist")
    /\ readmeFile[1].portlist = portContent
    /\ portContent # ""
    /\ portContent # "old"

----------------------------------------------------------------------------
(* C5 *)

InputPortSlugs == { portsData.ports[i].slug : i \in 1..Len(portsData.ports) }

InputUserstyleSlugs ==
    { userstylesData.userstyles[i].slug : i \in 1..Len(userstylesData.userstyles) }

\* The ports of ports.yml whose alias is no slug of the merged collection.
DanglingPorts ==
    { i \in 1..Len(portsData.ports) :
        /\ Has(portsData.ports[i].port, "alias")
        /\ portsData.ports[i].port.alias \notin InputPortSlugs \cup InputUserstyleSlugs }

\* Those of them that no userstyle of the same slug replaces in the merge.
SurvivingDanglingPorts ==
    { i \in DanglingPorts : portsData.ports[i].slug \notin InputUserstyleSlugs }

\* The run has ended with the alias error of one of the ports S, before the
\* README was read, a fragment rendered or anything written.
AliasErrorRaised(S) ==
    /\ pc = "aborted"
    /\ FailedAt({"categorized"})
    /\ \E i \in S :
        error[1].message =
            AliasMessage(portsData.ports[i].slug, portsData.ports[i].port.alias)
    /\ portListData = <<>> /\ readmeContent = <<>>
    /\ portContent = "" /\ showcaseContent = None
    /\ logged = <<>> /\ writes = <<>>

\* C5 as stated: if some port of the ports collection declares an alias
\* that is no slug of the merged collection, the run raises the alias error
\* naming that port's slug and alias before anything is read, rendered or
\* written.
C5_Original ==
    (Checked /\ pc \notin {"ports", "categorized"} /\ DanglingPorts # {})
        => AliasErrorRaised(DanglingPorts)

\* C5, amended: if some port that no userstyle of the same slug replaces
\* declares an alias that is no slug of the merged collection, the run
\* raises the alias error naming the slug and the alias of the first such
\* port, before the README is read, a fragment rendered or anything
\* written.
C5_DanglingAliasOfMergedPortAborts ==
    (Checked /\ pc \notin {"ports", "categorized"} /\ SurvivingDanglingPorts # {})
        => AliasErrorRaised(
               { i \in SurvivingDanglingPorts :
                   \A j \in SurvivingDanglingPorts : i <= j })

\* The second port's alias dangles, the first port's does not, and the
\* userstyles are not empty.
C5_Witness ==
    /\ pc = "aborted"
    /\ FailedAt({"categorized"})
    /\ error[1].message = AliasMessage("p2", "missing")
    /\ Has(portsData.ports[1].port, "alias")
    /\ userstylesData.userstyles # <<>>

----------------------------------------------------------------------------
(* C9 *)

AbsentCollection ==
    \/ ~Has(portsData, "ports")
    \/ categoriesData = None
    \/ ~Has(userstylesData, "userstyles")

EmptyCollection ==
    \/ Has(portsData, "ports") /\ portsData.ports = <<>>
    \/ categoriesData = Some(<<>>)
    \/ Has(userstylesData, "userstyles") /\ userstylesData.userstyles = <<>>

\* The absent-collection check has ended the run: nothing merged, nothing
\* written.
AbortedByCheck ==
    /\ pc = "aborted"
    /\ FailedAt({"checkEmpty"})
    /\ ports = <<>> /\ portSlugs = <<>>
    /\ writes = <<>>

\* C9 as stated: after validation, a ports, categories or userstyles
\* collection that is absent or has no entries aborts the run before
\* merging, with nothing written.
C9_Original ==
    (Validated /\ pc # "checkEmpty" /\ (AbsentCollection \/ EmptyCollection))
        => AbortedByCheck

\* C9, amended: after validation, the run aborts at the check, before
\* merging and with nothing written, exactly when one of the three
\* collections is absent (undefined or null); a collection that is present
\* with no entries passes the check and the run goes on.
C9_AbsentCollectionAborts ==
    (Validated /\ pc # "checkEmpty") =>
        /\ AbsentCollection => AbortedByCheck
        /\ ~AbsentCollection => ~FailedAt({"checkEmpty"})

\* The categories alone are absent, and the check has ended the run.
C9_Witness ==
    /\ AbortedByCheck
    /\ categoriesData = None
    /\ Has(portsData, "ports")
    /\ Has(userstylesData, "userstyles")

----------------------------------------------------------------------------
(* C4 *)

\* Non-decreasing by name under the comparator of the sort.
SortedByName(rows) ==
    \A i, j \in 1..Len(rows) :
        i < j => LocaleCompare(rows[i].name, rows[j].name) <= 0

\* C4: after each entry the reduce has processed, and so once grouping has
\* finished, the rows of every bucket are in non-decreasing order of name
\* under the comparator of the sort.
C4_BucketsSortedAfterEveryEntry ==
    /\ \A key \in DOMAIN acc : SortedByName(acc[key])
    /\ \A key \in DOMAIN categorized : SortedByName(categorized[key])

\* A finished bucket of three rows or more that starts with a variant's
\* row, pushed after the row of its entry.
C4_Witness ==
    /\ pc = "portListData"
    /\ \E key \in DOMAIN categorized :
        /\ Len(categorized[key]) >= 3
        /\ categorized[key][1].name = "Alpha"
        /\ categorized[key][Len(categorized[key])].name = "Zeta"

----------------------------------------------------------------------------
(* C6 and C7 *)

\* The url of an entry as the contract resolves it.
ClaimedUrl(slug, port) ==
    CASE Has(port, "url") -> port.url
      [] ~Has(port, "url") /\ port.type = "port" /\ Has(port, "alias") ->
            "https://github.com/catppuccin/" \o port.alias
      [] ~Has(port, "url") /\ port.type = "port" /\ ~Has(port, "alias") ->
            "https://github.com/catppuccin/" \o slug
      [] ~Has(port, "url") /\ port.type = "userstyle" ->
            "https://github.com/catppuccin/userstyles/tree/main/styles/" \o slug

\* K of an entry: the number of entries of its supports mapping.
SupportCount(port) == IF Has(port, "supports") THEN Len(port.supports) ELSE 0

\* The K+1 rows of an entry: its own name, then the name of each variant,
\* all with the url u.
ClaimedRows(port, u) ==
    [i \in 1..(SupportCount(port) + 1) |->
        With(With(port, "url", u), "name",
             IF i = 1 THEN port.name ELSE port.supports[i - 1].name)]

\* The rows the first n merged entries owe to the bucket of key.
RECURSIVE ClaimedBucket(_, _)
ClaimedBucket(n, key) ==
    IF n = 0 THEN <<>>
    ELSE ClaimedBucket(n - 1, key)
            \o (IF Primary(ports[n].port) = key
                    THEN ClaimedRows(ports[n].port,
                                     ClaimedUrl(ports[n].slug, ports[n].port))
                    ELSE <<>>)

\* The sum of K+1 over the first n merged entries whose first category is key.
RECURSIVE ClaimedLength(_, _)
ClaimedLength(n, key) ==
    IF n = 0 THEN 0
    ELSE ClaimedLength(n - 1, key)
            + (IF Primary(ports[n].port) = key
                    THEN SupportCount(ports[n].port) + 1
                    ELSE 0)

CategoryKeys == {"a", "b"}

\* C6: every processed entry has put exactly K+1 rows into the bucket of
\* its first category and none into another: each bucket holds, in some
\* order, the own-name row and the K variant rows of the processed entries
\* of that category, the rows of one entry with one url; its length is the
\* sum of K+1 over those entries.
C6_EntryContributesKPlusOneRows ==
    /\ DOMAIN acc \subseteq CategoryKeys
    /\ \A key \in CategoryKeys :
        /\ Len(Bucket(acc, key)) = ClaimedLength(idx, key)
        /\ SameRows(Bucket(acc, key), ClaimedBucket(idx, key))
    /\ pc = "portListData" =>
        \A key \in CategoryKeys :
            Len(Bucket(categorized, key)) = ClaimedLength(Len(ports), key)

\* Grouping has finished with an entry of one variant in one bucket and an
\* entry of another first category in the other.
C6_Witness ==
    /\ pc = "portListData"
    /\ Len(ports) = 3
    /\ \E n \in 1..Len(ports) : SupportCount(ports[n].port) = MaxSupports
    /\ Len(Bucket(categorized, "a")) >= 3
    /\ Len(Bucket(categorized, "b")) >= 1

\* C7: every row of a bucket is the row of a processed entry of that first
\* category with the url resolved as: the entry's url when it is set; else,
\* for a port, https://github.com/catppuccin/ and the alias when it is set,
\* the slug when it is not; else, for a userstyle,
\* https://github.com/catppuccin/userstyles/tree/main/styles/ and the slug;
\* and every processed entry has its own-name row with that url.
C7_UrlResolution ==
    /\ \A key \in DOMAIN acc : \A r \in Range(acc[key]) :
        \E n \in 1..idx :
            /\ Primary(ports[n].port) = key
            /\ r \in Range(ClaimedRows(ports[n].port, r.url))
            /\ r.url = ClaimedUrl(ports[n].slug, ports[n].port)
    /\ \A n \in 1..idx :
        With(ports[n].port, "url", ClaimedUrl(ports[n].slug, ports[n].port))
            \in Range(Bucket(acc, Primary(ports[n].port)))

\* Finished buckets with a row of each kind: a declared url, an alias, a
\* port's slug and a userstyle's slug.
C7_Witness ==
    /\ pc = "portListData"
    /\ \E r \in Range(Bucket(categorized, "a")) :
        Has(r, "alias") /\ r.url = "https://github.com/catppuccin/p2"
    /\ \E key \in CategoryKeys : \E r \in Range(Bucket(categorized, key)) :
        r.url = "https://github.com/catppuccin/userstyles/tree/main/styles/u1"
    /\ \E key \in CategoryKeys : \E r \in Range(Bucket(categorized, key)) :
        r.url = "https://github.com/catppuccin/p2"  /\ ~Has(r, "alias")

----------------------------------------------------------------------------
(* C8 *)

\* C8: no row of any bucket has a readme field or a platform field.
C8_RowsDropReadmeAndPlatform ==
    \A key \in DOMAIN acc : \A r \in Range(acc[key]) :
        ~Has(r, "readme") /\ ~Has(r, "platform")

----------------------------------------------------------------------------
(* C10 *)

\* The entry of slug in the validated mapping m.
EntryOf(m, slug) == (CHOOSE e \in Range(m) : e.slug = slug).port

\* The rows of a bucket that come from ports.yml.
PortRows(rows) == { i \in 1..Len(rows) : rows[i].type = "port" }

\* The sum of K+1 over the first n ports of ports.yml that no userstyle of
\* the same slug replaces and whose first category is key.
RECURSIVE UnreplacedPortRows(_, _)
UnreplacedPortRows(n, key) ==
    IF n = 0 THEN 0
    ELSE UnreplacedPortRows(n - 1, key)
            + (IF /\ portsData.ports[n].slug \notin InputUserstyleSlugs
                  /\ Primary(portsData.ports[n].port) = key
                    THEN SupportCount(portsData.ports[n].port) + 1
                    ELSE 0)

\* C10: the merged mapping has one entry per slug of the ports and of the
\* userstyles; the entry of a userstyle's slug is that userstyle tagged
\* "userstyle", also when a port has the slug, and then nothing of the port
\* is kept; the entry of any other slug is the port tagged "port"; a
\* replaced port raises no error and has no row in any bucket.
C10_MergeUnionUserstyleWins ==
    pc # "ports" =>
        /\ Range(portSlugs) = InputPortSlugs \cup InputUserstyleSlugs
        /\ Len(ports) = Cardinality(InputPortSlugs \cup InputUserstyleSlugs)
        /\ \A e \in Range(ports) :
            IF e.slug \in InputUserstyleSlugs
                THEN e.port = With(EntryOf(userstylesData.userstyles, e.slug),
                                   "type", "userstyle")
                ELSE e.port = With(EntryOf(portsData.ports, e.slug), "type", "port")
        /\ SurvivingDanglingPorts = {} => error = None
        /\ pc = "portListData" =>
            \A key \in CategoryKeys :
                Cardinality(PortRows(Bucket(categorized, key)))
                    = UnreplacedPortRows(Len(portsData.ports), key)

\* Grouping has finished although the port p1, which a userstyle of the
\* same slug replaces, declared an alias that dangles.
C10_Witness ==
    /\ pc = "portListData"
    /\ "p1" \in InputPortSlugs \cap InputUserstyleSlugs
    /\ 1 \in DanglingPorts
    /\ Len(ports) = 2
    /\ ports[1].port.type = "userstyle"
    /\ ports[2].port.type = "port"

====
